---- MODULE Spec2Model ----
(***************************************************************************)
(* Notification subsystem of the operations console front-end:             *)
(*   - the notification store (store/index.ts, useNotificationStore),      *)
(*   - the notification transport (services/notifications: REST calls and  *)
(*     the single module-level WebSocket handle),                          *)
(*   - the session-bound lifecycle in Layout.tsx (effect on [user]),       *)
(*   - the lead table of pages/leads/LeadList.tsx (sorting, the calls of   *)
(*     the active lead).                                                   *)
(***************************************************************************)
EXTENDS Integers, Sequences, FiniteSets

(* ------------------------------ bounds --------------------------------- *)
MaxId == 2
MaxItems == 4
MaxFetch == 2
MaxServerCount == 2
MaxSockets == 3
MaxUsers == 1
MaxPending == 2
MaxSessionItems == 1
MaxLeads == 3
MaxCalls == 2
MaxCallTime == 2

VARIABLES
    store,          \* useNotificationStore state: [items, unreadCount]
    ws,             \* module-level handle `ws`: 0 is null, else a socket id
    sock,           \* the WebSocket objects, by slot: "live" (connecting or
                    \* open), "closing" (close() was called, close event
                    \* pending), "none" (no object: never created, or closed
                    \* and dropped, no handler of it can run any more)
    token,          \* useAuthStore token is non-null
    lsToken,        \* localStorage holds 'token'
    user,           \* useAuthStore user: 0 is null, else a user id
    mounted,        \* ProtectedRoute / Layout is mounted
    effectOn,       \* the Layout effect ran with a user; its cleanup is due
    pendingList,    \* GET /notifications requests in flight
    pendingCount,   \* GET /notifications/unread/count requests in flight
    pendingUser,    \* GET /auth/me requests of ProtectedRoute in flight
    pendingRead,    \* POST /notifications/{id}/read in flight, per id
    srv,            \* what the server holds of each notification id:
                    \* "none", "unread", "read" or "deleted"
    frames,         \* ids whose push frame is on its way to the socket
    listReplies,    \* answers to GET /notifications on their way back,
                    \* each the list the server held when it answered
    leads,          \* LeadList state `leads`
    selectedLeadIds,\* LeadList state `selectedLeadIds`
    leadsLoading,   \* LeadList state `loading`
    leadsError,     \* LeadList state `error` is non-null
    pendingLeads,   \* GET /leads/ requests in flight
    assigning,      \* handleBulkAssign: "idle", "put" (PUT in flight) or
                    \* "fetch" (its fetchLeads in flight)
    sortKey,        \* LeadList state `sortKey`
    sortDirection,  \* LeadList state `sortDirection`
    activeLeadId,   \* LeadList state `activeLeadId`: 0 is null
    callsForActiveLead, \* LeadList state `callsForActiveLead`
    callsLoading,   \* LeadList state `callsLoading`
    callsError,     \* LeadList state `callsError` is non-null
    callsLastUpdatedAt, \* LeadList state `callsLastUpdatedAt` is non-null
    currentCalls,   \* GET /calls/ in flight whose effect run is current
    staleCalls,     \* GET /calls/ in flight whose effect run was cleaned
                    \* up (isCurrent = false), per lead id
    lastOp,         \* the operation that produced this state
    lastArg         \* its argument

vars == <<store, ws, sock, token, lsToken, user, mounted, effectOn,
          pendingList, pendingCount, pendingUser, pendingRead, srv,
          frames, listReplies, leads, selectedLeadIds, leadsLoading, leadsError,
          pendingLeads, assigning, sortKey, sortDirection, activeLeadId,
          callsForActiveLead, callsLoading, callsError,
          callsLastUpdatedAt, currentCalls, staleCalls, lastOp, lastArg>>

storeVars == <<store>>
wsVars == <<ws, sock>>
authVars == <<token, lsToken, user>>
viewVars == <<mounted, effectOn>>
reqVars == <<pendingList, pendingCount, pendingUser>>
restVars == <<pendingRead, srv, frames, listReplies>>
leadVars == <<leads, selectedLeadIds, leadsLoading, leadsError, pendingLeads,
             assigning>>
sortVars == <<sortKey, sortDirection>>
callVars == <<activeLeadId, callsForActiveLead, callsLoading, callsError,
              callsLastUpdatedAt, currentCalls, staleCalls>>
pageVars == <<leadVars, sortVars, callVars>>

(* ------------------------------ data ----------------------------------- *)
\* Notification (types/notification.ts): the fields the store reads.
Notification == [id : 1..MaxId, is_read : BOOLEAN]

RECURSIVE SeqsUpTo(_, _)
SeqsUpTo(S, n) ==
    IF n = 0 THEN {<<>>}
    ELSE LET shorter == SeqsUpTo(S, n - 1)
         IN  shorter \cup {<<x>> \o s : x \in S, s \in {t \in shorter : Len(t) = n - 1}}

\* no two entries of the list carry the same id
DistinctIds(list) ==
    \A i, j \in DOMAIN list : list[i].id = list[j].id => i = j

\* lists a GET /notifications response can carry (the server's ids are unique)
ServerLists == {l \in SeqsUpTo(Notification, MaxFetch) : DistinctIds(l)}
ServerCounts == 0..MaxServerCount

\* the lists the server answers with during one session of the lifecycle
SessionLists == {l \in ServerLists : Len(l) <= MaxSessionItems}
SessionCounts == 0..MaxSessionItems
SocketIds == 1..MaxSockets
Users == 1..MaxUsers

\* notifications.filter((n) => !n.is_read).length
CountUnread(list) == Cardinality({i \in DOMAIN list : ~list[i].is_read})

\* mutant of FilterOutId: only the first entry with the id is dropped
RECURSIVE FilterOutFirst(_, _)
FilterOutFirst(list, id) ==
    IF list = <<>> THEN <<>>
    ELSE IF Head(list).id = id THEN Tail(list)
         ELSE <<Head(list)>> \o FilterOutFirst(Tail(list), id)

\* items.filter((n) => n.id !== id)
RECURSIVE FilterOutId(_, _)
FilterOutId(list, id) ==
    IF list = <<>> THEN <<>>
    ELSE IF Head(list).id = id THEN FilterOutId(Tail(list), id)
         ELSE <<Head(list)>> \o FilterOutId(Tail(list), id)

HasId(list, id) == \E i \in DOMAIN list : list[i].id = id

(* ------------------- notification store (zustand) ---------------------- *)
\* mutant of setNotifications: the counter accumulates over the old one
setNotificationsAccumulate(state, notifications) ==
    [items |-> notifications,
     unreadCount |-> state.unreadCount + CountUnread(notifications)]

\* mutant of setNotifications: a list already held is kept
setNotificationsKeepHeld(state, notifications) ==
    IF state.items # <<>> THEN state
    ELSE [items |-> notifications, unreadCount |-> CountUnread(notifications)]

setNotifications(state, notifications) ==
    [items |-> notifications, unreadCount |-> CountUnread(notifications)]

setUnreadCount(state, count) == [state EXCEPT !.unreadCount = count]

\* mutant of addNotification: the counter is bumped whatever is_read says
addNotificationAlwaysCounts(state, notification) ==
    [items |-> <<notification>> \o state.items,
     unreadCount |-> state.unreadCount + 1]

\* mutant of addNotification: an entry with the same id is replaced
addNotificationDedupe(state, notification) ==
    [items |-> <<notification>> \o FilterOutId(state.items, notification.id),
     unreadCount |-> state.unreadCount + (IF notification.is_read THEN 0 ELSE 1)]

addNotification(state, notification) ==
    [items |-> <<notification>> \o state.items,
     unreadCount |-> state.unreadCount + (IF notification.is_read THEN 0 ELSE 1)]

\* mutant of markAsRead: the entries marked read are moved to the front
markAsReadMovesToFront(state, id) ==
    [items |-> SelectSeq([i \in DOMAIN state.items |->
                             [state.items[i] EXCEPT !.is_read = TRUE]],
                         LAMBDA n : n.id = id)
               \o SelectSeq(state.items, LAMBDA n : n.id # id),
     unreadCount |-> IF state.unreadCount > 0 THEN state.unreadCount - 1 ELSE 0]

markAsRead(state, id) ==
    [items |-> [i \in DOMAIN state.items |->
                   IF state.items[i].id = id
                   THEN [state.items[i] EXCEPT !.is_read = TRUE]
                   ELSE state.items[i]],
     unreadCount |-> IF state.unreadCount > 0 THEN state.unreadCount - 1 ELSE 0]

(* ---------------- notification transport (WebSocket) ------------------- *)
\* the transport's state as one value: the handle and the socket objects
Transport == [ws |-> ws, sock |-> sock]

\* WebSocket.close(): a connecting or open socket starts closing and its
\* close event is queued; on a closing or closed socket it does nothing
wsClose(sk, s) ==
    IF s # 0 /\ sk[s] = "live" THEN [sk EXCEPT ![s] = "closing"] ELSE sk

FreeSockets(sk) == {s \in SocketIds : sk[s] = "none"}

\* new WebSocket(url): the new object takes the first empty slot
NewSocket(sk) == CHOOSE s \in FreeSockets(sk) : \A t \in FreeSockets(sk) : s <= t

\* what makes a request of the api client fail: a 401 answer, or anything
\* else (another status, the network)
Failures == {"unauthorized", "other"}

\* the response error interceptor of the api client: on a 401 answer
\* localStorage.removeItem('token') (and the browser is sent to /login);
\* the value is whether localStorage holds 'token' afterwards
responseError(ls, failure) == IF failure = "unauthorized" THEN FALSE ELSE ls

\* useAuthStore.getState().token || localStorage.getItem('token')
TokenPresent == token \/ lsToken

\* mutant of connectNotificationWebSocket: a socket whose close event is
\* still pending blocks the connect
connectBlockedByClosing(w, hasToken) ==
    IF ~hasToken \/ (\E s \in SocketIds : w.sock[s] = "closing") THEN w
    ELSE LET new == NewSocket(w.sock)
         IN  [ws |-> new, sock |-> [w.sock EXCEPT ![new] = "live"]]

\* mutant of connectNotificationWebSocket: without a token the connection
\* held is closed
connectDropsWithoutToken(w, hasToken) ==
    IF ~hasToken THEN [ws |-> 0, sock |-> wsClose(w.sock, w.ws)]
    ELSE LET closed == wsClose(w.sock, w.ws)
             new == NewSocket(closed)
         IN  [ws |-> new, sock |-> [closed EXCEPT ![new] = "live"]]

connectNotificationWebSocket(w, hasToken) ==
    IF ~hasToken THEN w
    ELSE LET closed == wsClose(w.sock, w.ws)
             new == NewSocket(closed)
         IN  [ws |-> new, sock |-> [closed EXCEPT ![new] = "live"]]

\* mutant of disconnectNotificationWebSocket: every socket object is closed,
\* not only the one the handle refers to
disconnectCloseEverySocket(w) ==
    [ws |-> 0,
     sock |-> [s \in SocketIds |-> IF w.sock[s] = "live" THEN "closing" ELSE w.sock[s]]]

disconnectNotificationWebSocket(w) ==
    IF w.ws # 0 THEN [ws |-> 0, sock |-> wsClose(w.sock, w.ws)] ELSE w

\* sockets created by connect() and neither close()d nor closed
Live == {s \in SocketIds : sock[s] = "live"}

\* a frame of the push channel: ok is whether JSON.parse(event.data)
\* succeeds, payload is what it then yields
Frames == [ok : BOOLEAN, payload : Notification]

\* mutant of onmessage: the payload is added without the try/catch deciding
onmessageNoCatch(state, frame) == addNotification(state, frame.payload)

\* ws.onmessage: try { addNotification(JSON.parse(event.data)) } catch {}
onmessage(state, frame) ==
    IF frame.ok THEN addNotification(state, frame.payload) ELSE state

(* ------------- REST calls of services/notifications ------------------- *)
\* mutant of fetchNotifications: a failed request empties the list
fetchNotificationsClearsOnFailure(state, fulfilled, notifications) ==
    IF fulfilled THEN setNotifications(state, notifications)
    ELSE setNotifications(state, <<>>)

\* fetchNotifications after the await: setNotifications(data.notifications)
\* when the GET was fulfilled; when it was rejected the await throws and
\* nothing of the function runs any more
fetchNotifications(state, fulfilled, notifications) ==
    IF fulfilled THEN setNotifications(state, notifications) ELSE state

\* mutant of markNotificationRead: the entry is marked when the row is
\* clicked, before the POST is answered
markNotificationReadOptimistic(state, id, outcome) ==
    IF outcome = "rejected" THEN state ELSE markAsRead(state, id)

\* mutant of markNotificationRead: the entry is marked whatever the answer
markNotificationReadIgnoringFailure(state, id, outcome) ==
    IF outcome = "pending" THEN state ELSE markAsRead(state, id)

\* markNotificationRead(id): await api.post(...); markAsRead(id).  The store
\* while the POST is pending, after it was fulfilled, after it was rejected
\* (the await throws and the call site swallows the error).
markNotificationRead(state, id, outcome) ==
    IF outcome = "fulfilled" THEN markAsRead(state, id) ELSE state

ReadsInFlight ==
    LET RECURSIVE Sum(_)
        Sum(S) == IF S = {} THEN 0
                  ELSE LET id == CHOOSE x \in S : TRUE
                       IN  pendingRead[id] + Sum(S \ {id})
    IN  Sum(1..MaxId)

\* the ids the server holds a notification for
Held == {id \in 1..MaxId : srv[id] \in {"unread", "read"}}

\* what GET /notifications answers: every notification the server holds,
\* with the is_read the server has for it
Snapshots ==
    {l \in SessionLists :
        /\ {l[i].id : i \in DOMAIN l} = Held
        /\ \A i \in DOMAIN l : l[i].is_read = (srv[l[i].id] = "read")}

(* --------------------- lead table (LeadList.tsx) ----------------------- *)
\* Lead (types/lead.ts): the fields the table sorts by.  name "" stands for
\* a lead without a name, assigned_agent_id 0 for an unassigned one (the
\* code reads them as (value || '') and (assigned_agent_id ?? 0)).
LeadPool ==
    << [id |-> 1, name |-> "Bob", phone |-> "222", quality |-> "warm",
        status |-> "new", assigned_agent_id |-> 0, source |-> "website",
        created_at |-> "2024-01-02"],
       [id |-> 2, name |-> "Alice", phone |-> "111", quality |-> "hot",
        status |-> "contacted", assigned_agent_id |-> 0,
        source |-> "Referral", created_at |-> "2024-01-01"],
       [id |-> 3, name |-> "", phone |-> "333", quality |-> "hot",
        status |-> "new", assigned_agent_id |-> 5, source |-> "website",
        created_at |-> "2024-01-02"],
       [id |-> 4, name |-> " alice", phone |-> "444", quality |-> "cold",
        status |-> "lost", assigned_agent_id |-> 5, source |-> "referral",
        created_at |-> "2024-01-03"] >>

LeadIds == {LeadPool[i].id : i \in DOMAIN LeadPool}

\* lists a GET /leads/ response can carry (the server's ids are unique)
LeadLists ==
    {l \in SeqsUpTo({LeadPool[i] : i \in DOMAIN LeadPool}, MaxLeads) :
        DistinctIds(l)}

SortKeys == {"contact", "quality", "status", "assignedTo", "source", "created"}

\* (value || '').trim().toLowerCase()
getComparableString(value) ==
    CASE value = "Bob" -> "bob"
      [] value = "Alice" -> "alice"
      [] value = " alice" -> "alice"
      [] value = "Referral" -> "referral"
      [] OTHER -> value

\* the collation order of the comparable strings in use
Collation ==
    <<"", "111", "222", "333", "444", "alice", "bob", "referral", "website">>

CollationRank(str) == CHOOSE i \in DOMAIN Collation : Collation[i] = str

Sign(n) == IF n < 0 THEN -1 ELSE IF n > 0 THEN 1 ELSE 0

\* a.localeCompare(b)
localeCompare(a, b) == Sign(CollationRank(a) - CollationRank(b))

qualityRank(quality) ==
    CASE quality = "hot" -> 3 [] quality = "warm" -> 2
      [] quality = "cold" -> 1 [] OTHER -> 0

statusRank(status) ==
    CASE status = "new" -> 1 [] status = "contacted" -> 2
      [] status = "qualified" -> 3 [] status = "negotiating" -> 4
      [] status = "converted" -> 5 [] status = "lost" -> 6 [] OTHER -> 0

\* new Date(created_at).getTime(), in days
getTime(created_at) ==
    CASE created_at = "2024-01-01" -> 1
      [] created_at = "2024-01-02" -> 2
      [] created_at = "2024-01-03" -> 3

directionMultiplier(direction) == IF direction = "asc" THEN 1 ELSE -1

comparePhone(a, b) ==
    localeCompare(getComparableString(a.phone), getComparableString(b.phone))

\* compare(a, b) of the sortedLeads memo, for the sort key and direction
compare(a, b, key, direction) ==
    LET dm == directionMultiplier(direction)
        aName == getComparableString(a.name)
        bName == getComparableString(b.name)
    IN  CASE key = "contact" ->
                IF aName # "" /\ bName # "" /\ aName # bName
                THEN localeCompare(aName, bName) * dm
                ELSE IF aName # bName
                     THEN (IF aName # "" THEN -1 ELSE 1) * dm
                     ELSE comparePhone(a, b) * dm
          [] key = "quality" ->
                IF qualityRank(a.quality) # qualityRank(b.quality)
                THEN (qualityRank(a.quality) - qualityRank(b.quality)) * dm
                ELSE comparePhone(a, b) * dm
          [] key = "status" ->
                IF statusRank(a.status) # statusRank(b.status)
                THEN (statusRank(a.status) - statusRank(b.status)) * dm
                ELSE comparePhone(a, b) * dm
          [] key = "assignedTo" ->
                IF a.assigned_agent_id # b.assigned_agent_id
                THEN (a.assigned_agent_id - b.assigned_agent_id) * dm
                ELSE comparePhone(a, b) * dm
          [] key = "source" ->
                localeCompare(getComparableString(a.source),
                              getComparableString(b.source)) * dm
          [] OTHER ->
                IF getTime(a.created_at) # getTime(b.created_at)
                THEN (getTime(a.created_at) - getTime(b.created_at)) * dm
                ELSE comparePhone(a, b) * dm

\* the comparator handed to sort: compare, then the original index
Before(list, i, j, key, direction) ==
    LET primary == compare(list[i], list[j], key, direction)
    IN  IF primary # 0 THEN primary < 0 ELSE i < j

\* leads.map(...).sort(...).map(...): the row at position p is the one that
\* p - 1 other rows come before
sortedLeadsOf(list, key, direction) ==
    [p \in DOMAIN list |->
        list[CHOOSE i \in DOMAIN list :
                Cardinality({j \in DOMAIN list :
                    j # i /\ Before(list, j, i, key, direction)}) = p - 1]]

sortedLeads == sortedLeadsOf(leads, sortKey, sortDirection)

\* mutant of setSorting: a click on the current key leaves the direction
setSortingNoToggle(state, nextKey) ==
    [sortKey |-> nextKey,
     sortDirection |->
        IF state.sortKey = nextKey THEN state.sortDirection
        ELSE IF nextKey \in {"created", "quality"} THEN "desc" ELSE "asc"]

\* setSorting(nextKey): the two state updates it queues, applied once each
setSorting(state, nextKey) ==
    IF state.sortKey # nextKey
    THEN [sortKey |-> nextKey,
          sortDirection |->
             IF nextKey = "created" \/ nextKey = "quality"
             THEN "desc" ELSE "asc"]
    ELSE [sortKey |-> state.sortKey,
          sortDirection |->
             IF state.sortDirection = "asc" THEN "desc" ELSE "asc"]

(* ------------------ calls of the active lead (LeadList.tsx) ------------ *)
\* Call (types/call.ts): the lead it belongs to and its start time
Call == [lead_id : LeadIds, started_at : 1..MaxCallTime]

\* what GET /calls/?lead_id=leadId can answer: calls of that lead
CallResponses(leadId) ==
    SeqsUpTo({c \in Call : c.lead_id = leadId}, MaxCalls)

\* [...incomingCalls].sort((a, b) => bTs - aTs): latest first, ties in the
\* order received
sortCalls(incomingCalls) ==
    [p \in DOMAIN incomingCalls |->
        incomingCalls[CHOOSE i \in DOMAIN incomingCalls :
            Cardinality({j \in DOMAIN incomingCalls :
                j # i /\ (\/ incomingCalls[j].started_at > incomingCalls[i].started_at
                          \/ (/\ incomingCalls[j].started_at = incomingCalls[i].started_at
                              /\ j < i))}) = p - 1]]

\* the calls panel state the refresh of the effect writes
CallsPanel ==
    [callsForActiveLead |-> callsForActiveLead, callsLoading |-> callsLoading,
     callsError |-> callsError, callsLastUpdatedAt |-> callsLastUpdatedAt]

\* mutant of refreshResolved: the response is applied without the isCurrent
\* test
refreshResolvedNoGuard(panel, incomingCalls, isCurrent) ==
    [panel EXCEPT !.callsForActiveLead = sortCalls(incomingCalls),
                  !.callsLastUpdatedAt = TRUE,
                  !.callsLoading = FALSE]

\* refresh() after loadCallsForLead resolved
refreshResolved(panel, incomingCalls, isCurrent) ==
    IF ~isCurrent THEN panel
    ELSE [panel EXCEPT !.callsForActiveLead = sortCalls(incomingCalls),
                       !.callsLastUpdatedAt = TRUE,
                       !.callsLoading = FALSE]

\* refresh() after loadCallsForLead failed
refreshRejected(panel, isCurrent) ==
    IF ~isCurrent THEN panel
    ELSE [panel EXCEPT !.callsError = TRUE,
                       !.callsForActiveLead = <<>>,
                       !.callsLastUpdatedAt = FALSE,
                       !.callsLoading = FALSE]

\* GET /calls/ requests in flight
CallsInFlight ==
    LET RECURSIVE Sum(_)
        Sum(S) == IF S = {} THEN 0
                  ELSE LET l == CHOOSE x \in S : TRUE
                       IN  staleCalls[l] + Sum(S \ {l})
    IN  currentCalls + Sum(LeadIds)

(* ------------------------------ Init ----------------------------------- *)
Init ==
    /\ store = [items |-> <<>>, unreadCount |-> 0]
    /\ ws = 0
    /\ sock = [s \in SocketIds |-> "none"]
    /\ lsToken \in BOOLEAN
    /\ token = lsToken
    /\ user = 0
    /\ mounted = FALSE
    /\ effectOn = FALSE
    /\ pendingList = 0
    /\ pendingCount = 0
    /\ pendingUser = 0
    /\ pendingRead = [id \in 1..MaxId |-> 0]
    /\ srv = [id \in 1..MaxId |-> "none"]
    /\ frames = {}
    /\ listReplies = {}
    /\ leads = <<>>
    /\ selectedLeadIds = <<>>
    /\ assigning = "idle"
    /\ leadsLoading = TRUE
    /\ leadsError = FALSE
    /\ pendingLeads = 0
    /\ sortKey = "created"
    /\ sortDirection = "desc"
    /\ activeLeadId = 0
    /\ callsForActiveLead = <<>>
    /\ callsLoading = FALSE
    /\ callsError = FALSE
    /\ callsLastUpdatedAt = FALSE
    /\ currentCalls = 0
    /\ staleCalls = [l \in LeadIds |-> 0]
    /\ lastOp = "init"
    /\ lastArg = 0

(* --------------- store operations called directly ---------------------- *)
SetNotifications(list) ==
    /\ store' = setNotifications(store, list)
    /\ lastOp' = "setNotifications"
    /\ lastArg' = list
    /\ UNCHANGED <<restVars, pageVars>>
    /\ UNCHANGED <<wsVars, authVars, viewVars, reqVars>>

SetUnreadCount(count) ==
    /\ store' = setUnreadCount(store, count)
    /\ lastOp' = "setUnreadCount"
    /\ lastArg' = count
    /\ UNCHANGED <<restVars, pageVars>>
    /\ UNCHANGED <<wsVars, authVars, viewVars, reqVars>>

AddNotification(n) ==
    /\ Len(store.items) < MaxItems
    /\ store' = addNotification(store, n)
    /\ lastOp' = "addNotification"
    /\ lastArg' = n
    /\ UNCHANGED <<restVars, pageVars>>
    /\ UNCHANGED <<wsVars, authVars, viewVars, reqVars>>

MarkAsRead(id) ==
    /\ store' = markAsRead(store, id)
    /\ lastOp' = "markAsRead"
    /\ lastArg' = id
    /\ UNCHANGED <<restVars, pageVars>>
    /\ UNCHANGED <<wsVars, authVars, viewVars, reqVars>>

\* deleteNotification after the DELETE resolved (main.tsx 74-76)
DeleteNotification(id) ==
    /\ store' = setNotifications(store, FilterOutId(store.items, id))
    /\ lastOp' = "deleteNotification"
    /\ lastArg' = id
    /\ UNCHANGED <<restVars, pageVars>>
    /\ UNCHANGED <<wsVars, authVars, viewVars, reqVars>>

NextStore ==
    \/ \E list \in ServerLists : SetNotifications(list)
    \/ \E count \in ServerCounts : SetUnreadCount(count)
    \/ \E n \in Notification : AddNotification(n)
    \/ \E id \in 1..MaxId : MarkAsRead(id)
    \/ \E id \in 1..MaxId : DeleteNotification(id)

SpecStore == Init /\ [][NextStore]_vars

NextAdd == \E n \in Notification : AddNotification(n)

SpecAdd == Init /\ [][NextAdd]_vars

(* ------------------- transport operations ------------------------------ *)
Connect ==
    /\ TokenPresent => FreeSockets(sock) # {}
    /\ LET w == connectNotificationWebSocket(Transport, TokenPresent)
       IN  ws' = w.ws /\ sock' = w.sock
    /\ lastOp' = "connect"
    /\ lastArg' = TokenPresent
    /\ UNCHANGED <<restVars, pageVars>>
    /\ UNCHANGED <<storeVars, authVars, viewVars, reqVars>>

Disconnect ==
    /\ LET w == disconnectNotificationWebSocket(Transport)
       IN  ws' = w.ws /\ sock' = w.sock
    /\ lastOp' = "disconnect"
    /\ lastArg' = (ws # 0)
    /\ UNCHANGED <<restVars, pageVars>>
    /\ UNCHANGED <<storeVars, authVars, viewVars, reqVars>>

\* ws.onclose of socket s: the close event of a socket the client closed, or
\* of a live socket the server or the network closed
OnClose(s) ==
    /\ sock[s] \in {"live", "closing"}
    /\ sock' = [sock EXCEPT ![s] = "none"]
    /\ ws' = 0
    /\ lastOp' = "onclose"
    /\ lastArg' = s
    /\ UNCHANGED <<restVars, pageVars>>
    /\ UNCHANGED <<storeVars, authVars, viewVars, reqVars>>

\* ws.onmessage of socket s, the frame parses as a Notification
OnMessage(s, payload) ==
    /\ sock[s] = "live"
    /\ Len(store.items) < MaxSessionItems
    /\ store' = onmessage(store, [ok |-> TRUE, payload |-> payload])
    /\ lastOp' = "onmessage"
    /\ lastArg' = s
    /\ UNCHANGED <<restVars, pageVars>>
    /\ UNCHANGED <<wsVars, authVars, viewVars, reqVars>>

\* ws.onmessage of socket s, JSON.parse throws and the catch swallows it
OnMessageMalformed(s) ==
    /\ sock[s] = "live"
    /\ \E f \in Frames : ~f.ok /\ store' = onmessage(store, f)
    /\ lastOp' = "onmessageMalformed"
    /\ lastArg' = s
    /\ UNCHANGED <<restVars, pageVars>>
    /\ UNCHANGED <<wsVars, authVars, viewVars, reqVars>>

\* useAuthStore setToken(token)
SetToken(t) ==
    /\ lsToken' = t
    /\ token' = t
    /\ lastOp' = "setToken"
    /\ lastArg' = t
    /\ UNCHANGED <<restVars, pageVars>>
    /\ UNCHANGED <<storeVars, wsVars, user, viewVars, reqVars>>

NextTransport ==
    \/ Connect
    \/ Disconnect
    \/ \E s \in SocketIds : OnClose(s)
    \/ \E s \in SocketIds, n \in Notification : OnMessage(s, n)
    \/ \E s \in SocketIds : OnMessageMalformed(s)
    \/ \E t \in BOOLEAN : SetToken(t)

SpecTransport == Init /\ [][NextTransport]_vars

(* --------------------- session lifecycle (Layout) ---------------------- *)
\* cleanup of the Layout effect on [user] (Layout.tsx 81-83)
EffectCleanup(w, on) == IF on THEN disconnectNotificationWebSocket(w) ELSE w

\* body of the Layout effect on [user] for a non-null user (Layout.tsx 78-80);
\* the two fetches it starts are counted by the action that runs it
EffectBody(w, hasToken) == connectNotificationWebSocket(w, hasToken)

\* Login.handleSubmit succeeded: authService.login, setToken, setUser
\* (the Layout is not mounted on /login; navigate('/dashboard') is Mount)
Login(u) ==
    /\ ~mounted
    /\ lsToken' = TRUE
    /\ token' = TRUE
    /\ user' = u
    /\ lastOp' = "login"
    /\ lastArg' = u
    /\ UNCHANGED <<restVars, pageVars>>
    /\ UNCHANGED <<storeVars, wsVars, viewVars, reqVars>>

\* ProtectedRoute renders the Layout and the mount effects run; under
\* React.StrictMode (development build) every effect runs, is cleaned up and
\* runs again
Mount(strict) ==
    LET k == IF strict THEN 2 ELSE 1
        once == EffectBody(Transport, TokenPresent)
        w == IF strict
             THEN EffectBody(EffectCleanup(once, TRUE), TokenPresent)
             ELSE once
    IN  /\ ~mounted
        /\ lsToken
        /\ mounted' = TRUE
        /\ IF user # 0
           THEN /\ Cardinality(FreeSockets(sock)) >= k
                /\ pendingList + k <= MaxPending
                /\ pendingCount + k <= MaxPending
                /\ pendingList' = pendingList + k
                /\ pendingCount' = pendingCount + k
                /\ ws' = w.ws
                /\ sock' = w.sock
                /\ effectOn' = TRUE
                /\ UNCHANGED pendingUser
           ELSE /\ pendingUser + k <= MaxPending
                /\ pendingUser' = pendingUser + k
                /\ effectOn' = FALSE
                /\ UNCHANGED <<wsVars, pendingList, pendingCount>>
        /\ lastOp' = "mount"
        /\ lastArg' = strict
        /\ UNCHANGED <<restVars, pageVars>>
        /\ UNCHANGED <<storeVars, authVars>>

\* the Layout is torn down (navigation away): the effect cleanup runs
Unmount ==
    /\ mounted
    /\ mounted' = FALSE
    /\ effectOn' = FALSE
    /\ LET w == EffectCleanup(Transport, effectOn)
       IN  ws' = w.ws /\ sock' = w.sock
    /\ lastOp' = "unmount"
    /\ lastArg' = 0
    /\ UNCHANGED <<restVars, pageVars>>
    /\ UNCHANGED <<storeVars, authVars, reqVars>>

\* ProtectedRoute: getCurrentUser().then(user => setUser(user)); the user
\* object is new, so a mounted Layout cleans its effect up and runs it again
GetCurrentUserResolve(u) ==
    /\ pendingUser > 0
    /\ pendingUser' = pendingUser - 1
    /\ user' = u
    /\ IF mounted
       THEN /\ FreeSockets(sock) # {}
            /\ pendingList < MaxPending
            /\ pendingCount < MaxPending
            /\ pendingList' = pendingList + 1
            /\ pendingCount' = pendingCount + 1
            /\ LET w == EffectBody(EffectCleanup(Transport, effectOn), TokenPresent)
               IN  ws' = w.ws /\ sock' = w.sock
            /\ effectOn' = TRUE
       ELSE UNCHANGED <<wsVars, pendingList, pendingCount, effectOn>>
    /\ lastOp' = "setUser"
    /\ lastArg' = u
    /\ UNCHANGED <<restVars, pageVars>>
    /\ UNCHANGED <<storeVars, token, lsToken, mounted>>

\* ProtectedRoute: getCurrentUser() rejected, navigate('/login')
GetCurrentUserReject ==
    /\ pendingUser > 0
    /\ pendingUser' = pendingUser - 1
    /\ mounted' = FALSE
    /\ effectOn' = FALSE
    /\ LET w == EffectCleanup(Transport, mounted /\ effectOn)
       IN  ws' = w.ws /\ sock' = w.sock
    /\ \E failure \in Failures : lsToken' = responseError(lsToken, failure)
    /\ lastOp' = "getCurrentUserReject"
    /\ lastArg' = 0
    /\ UNCHANGED <<restVars, pageVars>>
    /\ UNCHANGED <<storeVars, token, user, pendingList, pendingCount>>

\* Layout.handleLogout: disconnect, auth store logout, navigate('/login');
\* the user becomes null and the Layout unmounts, so the effect cleanup runs
HandleLogout ==
    /\ mounted
    /\ LET w == EffectCleanup(disconnectNotificationWebSocket(Transport), effectOn)
       IN  ws' = w.ws /\ sock' = w.sock
    /\ lsToken' = FALSE
    /\ token' = FALSE
    /\ user' = 0
    /\ mounted' = FALSE
    /\ effectOn' = FALSE
    /\ lastOp' = "handleLogout"
    /\ lastArg' = 0
    /\ UNCHANGED <<restVars, pageVars>>
    /\ UNCHANGED <<storeVars, reqVars>>

\* fetchNotifications resolved: setNotifications(data.notifications)
FetchNotificationsResolve(list) ==
    /\ pendingList > 0
    /\ pendingList' = pendingList - 1
    /\ store' = fetchNotifications(store, TRUE, list)
    /\ lastOp' = "fetchNotifications"
    /\ lastArg' = list
    /\ UNCHANGED <<restVars, pageVars>>
    /\ UNCHANGED <<wsVars, authVars, viewVars, pendingCount, pendingUser>>

\* fetchNotifications rejected; the call site swallows the error
FetchNotificationsReject ==
    /\ pendingList > 0
    /\ pendingList' = pendingList - 1
    /\ store' = fetchNotifications(store, FALSE, <<>>)
    /\ \E failure \in Failures : lsToken' = responseError(lsToken, failure)
    /\ lastOp' = "fetchNotificationsReject"
    /\ lastArg' = 0
    /\ UNCHANGED <<restVars, pageVars>>
    /\ UNCHANGED <<wsVars, token, user, viewVars, pendingCount, pendingUser>>

\* fetchUnreadCount resolved: setUnreadCount(response.data)
FetchUnreadCountResolve(count) ==
    /\ pendingCount > 0
    /\ pendingCount' = pendingCount - 1
    /\ store' = setUnreadCount(store, count)
    /\ lastOp' = "fetchUnreadCount"
    /\ lastArg' = count
    /\ UNCHANGED <<restVars, pageVars>>
    /\ UNCHANGED <<wsVars, authVars, viewVars, pendingList, pendingUser>>

\* fetchUnreadCount rejected; the call site swallows the error
FetchUnreadCountReject ==
    /\ pendingCount > 0
    /\ pendingCount' = pendingCount - 1
    /\ \E failure \in Failures : lsToken' = responseError(lsToken, failure)
    /\ lastOp' = "fetchUnreadCountReject"
    /\ lastArg' = 0
    /\ UNCHANGED <<restVars, pageVars>>
    /\ UNCHANGED <<storeVars, wsVars, token, user, viewVars, pendingList, pendingUser>>

Next ==
    \/ \E u \in Users : Login(u)
    \/ \E strict \in BOOLEAN : Mount(strict)
    \/ Unmount
    \/ \E u \in Users : GetCurrentUserResolve(u)
    \/ GetCurrentUserReject
    \/ HandleLogout
    \/ \E s \in SocketIds : OnClose(s)
    \/ \E s \in SocketIds, n \in Notification : OnMessage(s, n)
    \/ \E s \in SocketIds : OnMessageMalformed(s)
    \/ \E list \in SessionLists : FetchNotificationsResolve(list)
    \/ FetchNotificationsReject
    \/ \E count \in SessionCounts : FetchUnreadCountResolve(count)
    \/ FetchUnreadCountReject

Spec == Init /\ [][Next]_vars

(* ------------- marking a notification read (Layout.tsx 86-88) ---------- *)
\* fetchNotifications up to the await: GET /notifications is sent
FetchNotificationsCall ==
    /\ pendingList < MaxPending
    /\ pendingList' = pendingList + 1
    /\ lastOp' = "fetchNotificationsCall"
    /\ lastArg' = 0
    /\ UNCHANGED <<storeVars, wsVars, authVars, viewVars, pendingCount,
                   pendingUser, restVars, pageVars>>

\* fetchUnreadCount up to the await: GET /notifications/unread/count is sent
FetchUnreadCountCall ==
    /\ pendingCount < MaxPending
    /\ pendingCount' = pendingCount + 1
    /\ lastOp' = "fetchUnreadCountCall"
    /\ lastArg' = 0
    /\ UNCHANGED <<storeVars, wsVars, authVars, viewVars, pendingList,
                   pendingUser, restVars, pageVars>>

\* a click on an entry of the panel: handleNotificationClick(id) sends the
\* POST
MarkNotificationRead(id) ==
    /\ HasId(store.items, id)
    /\ ReadsInFlight < MaxPending
    /\ pendingRead' = [pendingRead EXCEPT ![id] = @ + 1]
    /\ store' = markNotificationRead(store, id, "pending")
    /\ lastOp' = "markNotificationRead"
    /\ lastArg' = id
    /\ UNCHANGED <<wsVars, authVars, viewVars, reqVars, srv, frames,
                   listReplies, pageVars>>

\* the POST is answered with success: the server has marked the entry read
MarkNotificationReadResolve(id) ==
    /\ pendingRead[id] > 0
    /\ pendingRead' = [pendingRead EXCEPT ![id] = @ - 1]
    /\ srv' = [srv EXCEPT ![id] = IF @ = "unread" THEN "read" ELSE @]
    /\ store' = markNotificationRead(store, id, "fulfilled")
    /\ lastOp' = "markNotificationReadResolve"
    /\ lastArg' = id
    /\ UNCHANGED <<wsVars, authVars, viewVars, reqVars, frames, listReplies,
                   pageVars>>

\* the POST fails
MarkNotificationReadReject(id) ==
    /\ pendingRead[id] > 0
    /\ pendingRead' = [pendingRead EXCEPT ![id] = @ - 1]
    /\ store' = markNotificationRead(store, id, "rejected")
    /\ \E failure \in Failures : lsToken' = responseError(lsToken, failure)
    /\ lastOp' = "markNotificationReadReject"
    /\ lastArg' = id
    /\ UNCHANGED <<wsVars, token, user, viewVars, reqVars, srv, frames,
                   listReplies, pageVars>>

NextRead ==
    \/ FetchNotificationsCall
    \/ \E list \in SessionLists : FetchNotificationsResolve(list)
    \/ FetchNotificationsReject
    \/ FetchUnreadCountCall
    \/ \E count \in SessionCounts : FetchUnreadCountResolve(count)
    \/ FetchUnreadCountReject
    \/ \E id \in 1..MaxId : MarkNotificationRead(id)
    \/ \E id \in 1..MaxId : MarkNotificationReadResolve(id)
    \/ \E id \in 1..MaxId : MarkNotificationReadReject(id)

SpecRead == Init /\ [][NextRead]_vars

(* ------- one session against the server: pull, push, mutation --------- *)
\* the server creates a notification; with a connection open its frame is
\* sent on the push channel
ServerCreate(id) ==
    /\ srv[id] = "none"
    /\ Cardinality(Held) < MaxSessionItems
    /\ srv' = [srv EXCEPT ![id] = "unread"]
    /\ frames' = IF Live # {} THEN frames \cup {id} ELSE frames
    /\ lastOp' = "serverCreate"
    /\ lastArg' = id
    /\ UNCHANGED <<storeVars, wsVars, authVars, viewVars, reqVars,
                   pendingRead, listReplies, pageVars>>

\* ws.onmessage for the frame of a created notification
PushDelivered(s, id) ==
    /\ id \in frames
    /\ sock[s] = "live"
    /\ Len(store.items) < MaxItems
    /\ frames' = frames \ {id}
    /\ store' = onmessage(store, [ok |-> TRUE,
                                  payload |-> [id |-> id, is_read |-> FALSE]])
    /\ lastOp' = "onmessage"
    /\ lastArg' = s
    /\ UNCHANGED <<wsVars, authVars, viewVars, reqVars, pendingRead, srv,
                   listReplies, pageVars>>

\* fetchNotifications sends GET /notifications and the server answers with
\* what it holds; the answer is on its way
FetchNotificationsServed(list) ==
    /\ Cardinality(listReplies) < MaxPending
    /\ list \in Snapshots
    /\ list \notin listReplies
    /\ listReplies' = listReplies \cup {list}
    /\ lastOp' = "fetchNotificationsCall"
    /\ lastArg' = 0
    /\ UNCHANGED <<storeVars, wsVars, authVars, viewVars, reqVars,
                   pendingRead, srv, frames, pageVars>>

\* an answer arrives: setNotifications(data.notifications)
FetchNotificationsDelivered(list) ==
    /\ list \in listReplies
    /\ listReplies' = listReplies \ {list}
    /\ store' = fetchNotifications(store, TRUE, list)
    /\ lastOp' = "fetchNotifications"
    /\ lastArg' = list
    /\ UNCHANGED <<wsVars, authVars, viewVars, reqVars, pendingRead, srv,
                   frames, pageVars>>

\* an answer is lost: the request is rejected, the call site swallows it
FetchNotificationsLost(list) ==
    /\ list \in listReplies
    /\ listReplies' = listReplies \ {list}
    /\ store' = fetchNotifications(store, FALSE, <<>>)
    /\ \E failure \in Failures : lsToken' = responseError(lsToken, failure)
    /\ lastOp' = "fetchNotificationsReject"
    /\ lastArg' = 0
    /\ UNCHANGED <<wsVars, token, user, viewVars, reqVars,
                   pendingRead, srv, frames, pageVars>>

\* deleteNotification(id): the server deletes the notification and the
\* answer is processed
NotificationDeleted(id) ==
    /\ id \in Held
    /\ srv' = [srv EXCEPT ![id] = "deleted"]
    /\ store' = setNotifications(store, FilterOutId(store.items, id))
    /\ lastOp' = "deleteNotification"
    /\ lastArg' = id
    /\ UNCHANGED <<wsVars, authVars, viewVars, reqVars, pendingRead, frames,
                   listReplies, pageVars>>

NextRest ==
    \/ Connect
    \/ \E id \in 1..MaxId : ServerCreate(id)
    \/ \E s \in SocketIds : \E id \in 1..MaxId : PushDelivered(s, id)
    \/ \E list \in SessionLists : FetchNotificationsServed(list)
    \/ \E list \in SessionLists : FetchNotificationsDelivered(list)
    \/ \E list \in SessionLists : FetchNotificationsLost(list)
    \/ \E id \in 1..MaxId : MarkNotificationRead(id)
    \/ \E id \in Held : MarkNotificationReadResolve(id)
    \/ \E id \in 1..MaxId : MarkNotificationReadReject(id)
    \/ \E id \in 1..MaxId : NotificationDeleted(id)

SpecRest == Init /\ [][NextRest]_vars

(* -------------------- lead table actions (LeadList.tsx) ---------------- *)
\* fetchLeads up to the await: setError(null), setLoading(true), GET /leads/
FetchLeads ==
    /\ pendingLeads < MaxPending
    /\ pendingLeads' = pendingLeads + 1
    /\ leadsError' = FALSE
    /\ leadsLoading' = TRUE
    /\ lastOp' = "fetchLeads"
    /\ lastArg' = 0
    /\ UNCHANGED <<leads, selectedLeadIds, assigning, sortVars, callVars>>
    /\ UNCHANGED <<storeVars, wsVars, authVars, viewVars, reqVars, restVars>>

\* fetchLeads after the GET resolved
FetchLeadsResolve(list) ==
    /\ pendingLeads > 0
    /\ pendingLeads' = pendingLeads - 1
    /\ leads' = list
    /\ selectedLeadIds' = <<>>
    /\ leadsLoading' = FALSE
    /\ lastOp' = "fetchLeadsResolve"
    /\ lastArg' = 0
    /\ UNCHANGED <<leadsError, assigning, sortVars, callVars>>
    /\ UNCHANGED <<storeVars, wsVars, authVars, viewVars, reqVars, restVars>>

\* fetchLeads after the GET failed
FetchLeadsReject ==
    /\ pendingLeads > 0
    /\ pendingLeads' = pendingLeads - 1
    /\ leadsError' = TRUE
    /\ leads' = <<>>
    /\ leadsLoading' = FALSE
    /\ \E failure \in Failures : lsToken' = responseError(lsToken, failure)
    /\ lastOp' = "fetchLeadsReject"
    /\ lastArg' = 0
    /\ UNCHANGED <<selectedLeadIds, assigning, sortVars, callVars>>
    /\ UNCHANGED <<storeVars, wsVars, token, user, viewVars, reqVars, restVars>>

\* a click on a column header: setSorting(nextKey)
SetSorting(nextKey) ==
    LET next == setSorting([sortKey |-> sortKey,
                            sortDirection |-> sortDirection], nextKey)
    IN  /\ sortKey' = next.sortKey
        /\ sortDirection' = next.sortDirection
        /\ lastOp' = "setSorting"
        /\ lastArg' = nextKey
        /\ UNCHANGED <<leadVars, callVars>>
        /\ UNCHANGED <<storeVars, wsVars, authVars, viewVars, reqVars, restVars>>

\* the panel state after a step of refresh()
SetCallsPanel(panel) ==
    /\ callsForActiveLead' = panel.callsForActiveLead
    /\ callsLoading' = panel.callsLoading
    /\ callsError' = panel.callsError
    /\ callsLastUpdatedAt' = panel.callsLastUpdatedAt

\* a click on a lead row: setActiveLeadId(lead.id).  With another lead
\* active the effect on [activeLeadId] is cleaned up (isCurrent = false,
\* the interval is cleared) and runs again: refresh() sets callsLoading,
\* clears callsError and sends GET /calls/.  A click on the active row
\* leaves the state value as it is and the effect does not run.
SelectLead(leadId) ==
    /\ IF leadId = activeLeadId
       THEN UNCHANGED callVars
       ELSE /\ CallsInFlight < MaxPending
            /\ activeLeadId' = leadId
            /\ staleCalls' =
                  IF activeLeadId = 0 THEN staleCalls
                  ELSE [staleCalls EXCEPT ![activeLeadId] = @ + currentCalls]
            /\ currentCalls' = 1
            /\ callsLoading' = TRUE
            /\ callsError' = FALSE
            /\ UNCHANGED <<callsForActiveLead, callsLastUpdatedAt>>
    /\ lastOp' = "selectLead"
    /\ lastArg' = leadId
    /\ UNCHANGED <<leadVars, sortVars>>
    /\ UNCHANGED <<storeVars, wsVars, authVars, viewVars, reqVars, restVars>>

\* the 30 s interval of the current effect run fires: refresh()
IntervalTick ==
    /\ activeLeadId # 0
    /\ CallsInFlight < MaxPending
    /\ currentCalls' = currentCalls + 1
    /\ callsLoading' = TRUE
    /\ callsError' = FALSE
    /\ lastOp' = "intervalTick"
    /\ lastArg' = activeLeadId
    /\ UNCHANGED <<activeLeadId, callsForActiveLead, callsLastUpdatedAt,
                   staleCalls>>
    /\ UNCHANGED <<leadVars, sortVars>>
    /\ UNCHANGED <<storeVars, wsVars, authVars, viewVars, reqVars, restVars>>

\* a GET /calls/ of the current effect run resolves
CallsResolve(incomingCalls) ==
    /\ currentCalls > 0
    /\ currentCalls' = currentCalls - 1
    /\ SetCallsPanel(refreshResolved(CallsPanel, incomingCalls, TRUE))
    /\ lastOp' = "callsResolve"
    /\ lastArg' = activeLeadId
    /\ UNCHANGED <<activeLeadId, staleCalls>>
    /\ UNCHANGED <<leadVars, sortVars>>
    /\ UNCHANGED <<storeVars, wsVars, authVars, viewVars, reqVars, restVars>>

\* a GET /calls/ of the current effect run fails
CallsReject ==
    /\ currentCalls > 0
    /\ currentCalls' = currentCalls - 1
    /\ SetCallsPanel(refreshRejected(CallsPanel, TRUE))
    /\ \E failure \in Failures : lsToken' = responseError(lsToken, failure)
    /\ lastOp' = "callsReject"
    /\ lastArg' = activeLeadId
    /\ UNCHANGED <<activeLeadId, staleCalls>>
    /\ UNCHANGED <<leadVars, sortVars>>
    /\ UNCHANGED <<storeVars, wsVars, token, user, viewVars, reqVars, restVars>>

\* a GET /calls/ of a cleaned-up effect run resolves
StaleCallsResolve(leadId, incomingCalls) ==
    /\ staleCalls[leadId] > 0
    /\ staleCalls' = [staleCalls EXCEPT ![leadId] = @ - 1]
    /\ SetCallsPanel(refreshResolved(CallsPanel, incomingCalls, FALSE))
    /\ lastOp' = "staleCallsResolve"
    /\ lastArg' = leadId
    /\ UNCHANGED <<activeLeadId, currentCalls>>
    /\ UNCHANGED <<leadVars, sortVars>>
    /\ UNCHANGED <<storeVars, wsVars, authVars, viewVars, reqVars, restVars>>

\* a GET /calls/ of a cleaned-up effect run fails
StaleCallsReject(leadId) ==
    /\ staleCalls[leadId] > 0
    /\ staleCalls' = [staleCalls EXCEPT ![leadId] = @ - 1]
    /\ SetCallsPanel(refreshRejected(CallsPanel, FALSE))
    /\ \E failure \in Failures : lsToken' = responseError(lsToken, failure)
    /\ lastOp' = "staleCallsReject"
    /\ lastArg' = leadId
    /\ UNCHANGED <<activeLeadId, currentCalls>>
    /\ UNCHANGED <<leadVars, sortVars>>
    /\ UNCHANGED <<storeVars, wsVars, token, user, viewVars, reqVars, restVars>>

NextCalls ==
    \/ \E leadId \in LeadIds : SelectLead(leadId)
    \/ IntervalTick
    \/ \E incomingCalls \in CallResponses(activeLeadId) :
          CallsResolve(incomingCalls)
    \/ CallsReject
    \/ \E leadId \in LeadIds : \E incomingCalls \in CallResponses(leadId) :
          StaleCallsResolve(leadId, incomingCalls)
    \/ \E leadId \in LeadIds : StaleCallsReject(leadId)

SpecCalls == Init /\ [][NextCalls]_vars

\* ---- the two copies of the session token -------------------------------
\* localStorage 'token' (read by the request interceptor, by
\* authService.isAuthenticated and by connectNotificationWebSocket) and the
\* auth store's token (persisted under 'auth-storage', so a page load
\* restores it).

\* authService.login fulfilled: localStorage.setItem('token', access_token);
\* the auth store is not touched
AuthServiceLogin ==
    /\ lsToken' = TRUE
    /\ lastOp' = "authService.login"
    /\ lastArg' = 0
    /\ UNCHANGED <<storeVars, wsVars, token, user, viewVars, reqVars,
                   restVars, pageVars>>

\* useAuthStore.logout(): both copies and the user are cleared
StoreLogout ==
    /\ lsToken' = FALSE
    /\ token' = FALSE
    /\ user' = 0
    /\ lastOp' = "logout"
    /\ lastArg' = 0
    /\ UNCHANGED <<storeVars, wsVars, viewVars, reqVars, restVars, pageVars>>

\* authService.logout(): localStorage.removeItem('token') and a page load
\* of /login. The load discards the document: the notification store, the
\* user, the sockets and the requests in flight are gone, and the persist
\* middleware restores the store's token from 'auth-storage'
AuthServiceLogout ==
    /\ lsToken' = FALSE
    /\ user' = 0
    /\ store' = [items |-> <<>>, unreadCount |-> 0]
    /\ ws' = 0
    /\ sock' = [s \in SocketIds |-> "none"]
    /\ mounted' = FALSE
    /\ effectOn' = FALSE
    /\ pendingList' = 0
    /\ pendingCount' = 0
    /\ pendingUser' = 0
    /\ lastOp' = "authService.logout"
    /\ lastArg' = 0
    /\ UNCHANGED <<token, restVars, pageVars>>

\* authService.getCurrentUser up to the await: GET /auth/me is sent
GetCurrentUserCall ==
    /\ pendingUser < MaxPending
    /\ pendingUser' = pendingUser + 1
    /\ lastOp' = "getCurrentUserCall"
    /\ lastArg' = 0
    /\ UNCHANGED <<storeVars, wsVars, authVars, viewVars, pendingList,
                   pendingCount, restVars, pageVars>>

\* the operations on the token copies, with the requests whose answer can
\* be a 401
NextAuth ==
    \/ AuthServiceLogin
    \/ \E t \in BOOLEAN : SetToken(t)
    \/ \E u \in Users : Login(u)
    \/ StoreLogout
    \/ AuthServiceLogout
    \/ GetCurrentUserCall
    \/ \E u \in Users : GetCurrentUserResolve(u)
    \/ GetCurrentUserReject
    \/ FetchNotificationsCall
    \/ FetchNotificationsReject
    \/ FetchUnreadCountCall
    \/ FetchUnreadCountReject

SpecAuth == Init /\ [][NextAuth]_vars

\* ---- bulk selection on the leads page (admin, an agent chosen) ---------

\* ids of the rows that carry a checkbox: leads without an assigned agent
selectableIds(list) ==
    LET unassigned == SelectSeq(list, LAMBDA lead : lead.assigned_agent_id = 0)
    IN  [i \in DOMAIN unassigned |-> unassigned[i].id]

includes(list, x) == \E i \in DOMAIN list : list[i] = x

\* the updater of toggleLeadSelection(leadId)
toggleLeadSelection(current, leadId) ==
    IF includes(current, leadId)
    THEN SelectSeq(current, LAMBDA id : id # leadId)
    ELSE Append(current, leadId)

\* toggleSelectAll(): the value it hands to setSelectedLeadIds
toggleSelectAll(list, selected) ==
    IF /\ Len(selectableIds(list)) > 0
       /\ \A i \in DOMAIN selectableIds(list) :
             includes(selected, selectableIds(list)[i])
    THEN <<>>
    ELSE selectableIds(list)

\* the table is rendered: {!loading && !error && ...}
TableShown == ~leadsLoading /\ ~leadsError

\* a click on the checkbox of a row; only rows of unassigned leads have one
ToggleLeadSelection(leadId) ==
    /\ TableShown
    /\ includes(selectableIds(leads), leadId)
    /\ selectedLeadIds' = toggleLeadSelection(selectedLeadIds, leadId)
    /\ lastOp' = "toggleLeadSelection"
    /\ lastArg' = leadId
    /\ UNCHANGED <<leads, leadsLoading, leadsError, pendingLeads, assigning,
                   sortVars, callVars>>
    /\ UNCHANGED <<storeVars, wsVars, authVars, viewVars, reqVars, restVars>>

\* a click on the header checkbox (disabled when no row is selectable)
ToggleSelectAll ==
    /\ TableShown
    /\ Len(selectableIds(leads)) > 0
    /\ selectedLeadIds' = toggleSelectAll(leads, selectedLeadIds)
    /\ lastOp' = "toggleSelectAll"
    /\ lastArg' = 0
    /\ UNCHANGED <<leads, leadsLoading, leadsError, pendingLeads, assigning,
                   sortVars, callVars>>
    /\ UNCHANGED <<storeVars, wsVars, authVars, viewVars, reqVars, restVars>>

\* a click on "Assign selected" (disabled while assigning or loading or with
\* nothing selected): setAssigning(true), setError(null), the PUT is sent
HandleBulkAssign ==
    /\ assigning = "idle"
    /\ ~leadsLoading
    /\ selectedLeadIds # <<>>
    /\ assigning' = "put"
    /\ leadsError' = FALSE
    /\ lastOp' = "handleBulkAssign"
    /\ lastArg' = 0
    /\ UNCHANGED <<leads, selectedLeadIds, leadsLoading, pendingLeads,
                   sortVars, callVars>>
    /\ UNCHANGED <<storeVars, wsVars, authVars, viewVars, reqVars, restVars>>

\* the PUT /leads/assign/bulk is fulfilled: await fetchLeads() starts
BulkAssignResolve ==
    /\ assigning = "put"
    /\ assigning' = "fetch"
    /\ leadsError' = FALSE
    /\ leadsLoading' = TRUE
    /\ lastOp' = "bulkAssignResolve"
    /\ lastArg' = 0
    /\ UNCHANGED <<leads, selectedLeadIds, pendingLeads, sortVars, callVars>>
    /\ UNCHANGED <<storeVars, wsVars, authVars, viewVars, reqVars, restVars>>

\* the PUT is rejected: setError(message), setAssigning(false)
BulkAssignReject ==
    /\ assigning = "put"
    /\ assigning' = "idle"
    /\ leadsError' = TRUE
    /\ \E failure \in Failures : lsToken' = responseError(lsToken, failure)
    /\ lastOp' = "bulkAssignReject"
    /\ lastArg' = 0
    /\ UNCHANGED <<leads, selectedLeadIds, leadsLoading, pendingLeads,
                   sortVars, callVars>>
    /\ UNCHANGED <<storeVars, wsVars, token, user, viewVars, reqVars, restVars>>

\* the fetchLeads of handleBulkAssign after its GET resolved, then
\* setAssigning(false)
BulkAssignFetchResolve(list) ==
    /\ assigning = "fetch"
    /\ assigning' = "idle"
    /\ leads' = list
    /\ selectedLeadIds' = <<>>
    /\ leadsLoading' = FALSE
    /\ lastOp' = "bulkAssignFetchResolve"
    /\ lastArg' = 0
    /\ UNCHANGED <<leadsError, pendingLeads, sortVars, callVars>>
    /\ UNCHANGED <<storeVars, wsVars, authVars, viewVars, reqVars, restVars>>

\* the fetchLeads of handleBulkAssign after its GET failed (fetchLeads
\* catches the error itself), then setAssigning(false)
BulkAssignFetchReject ==
    /\ assigning = "fetch"
    /\ assigning' = "idle"
    /\ leadsError' = TRUE
    /\ leads' = <<>>
    /\ leadsLoading' = FALSE
    /\ \E failure \in Failures : lsToken' = responseError(lsToken, failure)
    /\ lastOp' = "bulkAssignFetchReject"
    /\ lastArg' = 0
    /\ UNCHANGED <<selectedLeadIds, pendingLeads, sortVars, callVars>>
    /\ UNCHANGED <<storeVars, wsVars, token, user, viewVars, reqVars, restVars>>

NextSelect ==
    \/ FetchLeads
    \/ \E list \in LeadLists : FetchLeadsResolve(list)
    \/ FetchLeadsReject
    \/ \E leadId \in LeadIds : ToggleLeadSelection(leadId)
    \/ ToggleSelectAll
    \/ HandleBulkAssign
    \/ BulkAssignResolve
    \/ BulkAssignReject
    \/ \E list \in LeadLists : BulkAssignFetchResolve(list)
    \/ BulkAssignFetchReject

SpecSelect == Init /\ [][NextSelect]_vars

NextSort ==
    \/ FetchLeads
    \/ \E list \in LeadLists : FetchLeadsResolve(list)
    \/ FetchLeadsReject
    \/ \E nextKey \in SortKeys : SetSorting(nextKey)

SpecSort == Init /\ [][NextSort]_vars

(* ------------------------ store properties ----------------------------- *)
\* C1: unreadCount equals the number of entries of items with
\* is_read = false in every reachable state of the store, except in a state
\* reached directly by setUnreadCount.
C1_UnreadCountMatchesItems ==
    lastOp # "setUnreadCount" => store.unreadCount = CountUnread(store.items)

\* C5: markAsRead(id) is idempotent: a second markAsRead(id) right after a
\* first one with the same id changes neither items nor unreadCount.
C5_MarkAsReadIdempotent ==
    [][(lastOp = "markAsRead" /\ lastOp' = "markAsRead" /\ lastArg' = lastArg)
          => (store'.items = store.items
              /\ store'.unreadCount = store.unreadCount)]_vars

\* C6: markAsRead(id) for an id that items does not hold changes neither
\* items nor unreadCount.
C6_MarkAsReadAbsentNoOp ==
    [][(lastOp' = "markAsRead" /\ ~HasId(store.items, lastArg'))
          => (store'.items = store.items
              /\ store'.unreadCount = store.unreadCount)]_vars

\* is some entry with this id unread?
UnreadId(list, id) == \E i \in DOMAIN list : list[i].id = id /\ ~list[i].is_read

\* C7: markAsRead(id) for an id held in items sets the entry's is_read, and
\* unreadCount drops by exactly 1 (not below 0) when the entry was unread and
\* is unchanged when the entry was already read.
C7_MarkAsReadDecrement ==
    [][(lastOp' = "markAsRead" /\ HasId(store.items, lastArg'))
          => (/\ \A i \in DOMAIN store'.items :
                    store'.items[i].id = lastArg' => store'.items[i].is_read
              /\ store'.unreadCount =
                    IF UnreadId(store.items, lastArg')
                    THEN (IF store.unreadCount > 0 THEN store.unreadCount - 1 ELSE 0)
                    ELSE store.unreadCount)]_vars

\* C8: setNotifications(list) leaves items = list and unreadCount = the
\* number of unread entries of list, whatever the store held before.
C8_SetNotificationsResets ==
    [][lastOp' = "setNotifications"
          => (store'.items = lastArg'
              /\ store'.unreadCount = CountUnread(lastArg'))]_vars

\* a setNotifications of a list holding read and unread entries
C8_Witness ==
    /\ lastOp = "setNotifications"
    /\ store.items # <<>>
    /\ CountUnread(store.items) < Len(store.items)
    /\ store.unreadCount = CountUnread(store.items)
    /\ store.unreadCount > 0

\* C9: from the empty store, after each addNotification of a sequence of
\* addNotification calls, unreadCount is the number of unread entries held.
C9_AddKeepsCount == store.unreadCount = CountUnread(store.items)

C9_Witness ==
    /\ lastOp = "addNotification"
    /\ Len(store.items) >= 3
    /\ CountUnread(store.items) >= 2
    /\ CountUnread(store.items) < Len(store.items)

\* C10: addNotification(entry) puts entry at the head of items, keeps the
\* previous entries in their order (no deduplication by id), and adds 1 to
\* unreadCount when entry.is_read is false and 0 when it is true.
C10_AddPrepends ==
    [][lastOp' = "addNotification"
          => (store'.items = <<lastArg'>> \o store.items
              /\ store'.unreadCount =
                    store.unreadCount + (IF lastArg'.is_read THEN 0 ELSE 1))]_vars

\* an entry was added while an entry with the same id was already held
C10_Witness ==
    /\ lastOp = "addNotification"
    /\ Len(store.items) >= 2
    /\ \E i \in 2..Len(store.items) : store.items[i].id = store.items[1].id

(* ---------------------- transport properties --------------------------- *)
\* C2: under any interleaving of connect(), disconnect() and close events,
\* at most one notification WebSocket is live.
C2_AtMostOneLive == Cardinality(Live) <= 1

\* C4: connect() followed immediately by a second connect(), token present,
\* leaves exactly one live connection, so that a frame the server sends to
\* the user's connections reaches one message handler only.
C4_ConnectTwiceOneLive ==
    [][(lastOp = "connect" /\ lastArg /\ lastOp' = "connect" /\ lastArg')
          => Cardinality(Live') = 1]_vars

(* ---------------------- lifecycle properties --------------------------- *)
\* C3: after handleLogout or the unmount of the Layout, no notification
\* WebSocket opened during the session is live.
C3_NoLiveAfterTeardown ==
    lastOp \in {"handleLogout", "unmount"} => Live = {}

\* C11: disconnect() is idempotent: with no handle held it changes nothing,
\* and a disconnect() right after a disconnect() changes nothing.
C11_DisconnectIdempotent ==
    [][(lastOp' = "disconnect" /\ (ws = 0 \/ lastOp = "disconnect"))
          => (ws' = ws /\ sock' = sock /\ store' = store)]_vars

\* disconnect() was called with no handle held while a socket is still live
C11_Witness == lastOp = "disconnect" /\ ~lastArg /\ ws = 0 /\ Live # {}

\* C12: a push frame that is not valid JSON leaves items and unreadCount as
\* they were, and the connection stays open with its handle unchanged.
C12_MalformedFrameDropped ==
    [][lastOp' = "onmessageMalformed"
          => (store' = store /\ ws' = ws /\ sock' = sock
              /\ sock'[lastArg'] = "live")]_vars

\* a malformed frame arrived on the connection the handle refers to, the
\* store holding an entry
C12_Witness ==
    /\ lastOp = "onmessageMalformed"
    /\ ws = lastArg
    /\ sock[ws] = "live"
    /\ store.items # <<>>

\* C14: after deleteNotification(id) succeeds the store holds no entry with
\* that id, every other entry held when the response arrived is kept in
\* order, and unreadCount is the number of unread entries that remain.
C14_DeleteRemovesOnlyId ==
    [][lastOp' = "deleteNotification"
          => (/\ ~HasId(store'.items, lastArg')
              /\ store'.items =
                    SelectSeq(store.items, LAMBDA n : n.id # lastArg')
              /\ store'.unreadCount = CountUnread(store'.items))]_vars

\* a delete left other entries, some unread, behind
C14_Witness ==
    /\ lastOp = "deleteNotification"
    /\ store.items # <<>>
    /\ ~HasId(store.items, lastArg)
    /\ store.unreadCount = CountUnread(store.items)
    /\ store.unreadCount > 0

\* C15: right after logout the notification store is torn down: items is
\* empty, unreadCount is 0 and no connection of the transport is open.
C15_LogoutTearsDownStore ==
    lastOp = "handleLogout"
        => (store.items = <<>> /\ store.unreadCount = 0
            /\ ws = 0 /\ Live = {})

\* the value of the column the table is sorted by
ColumnKey(lead, key) ==
    CASE key = "contact" -> getComparableString(lead.name)
      [] key = "quality" -> lead.quality
      [] key = "status" -> lead.status
      [] key = "assignedTo" -> lead.assigned_agent_id
      [] key = "source" -> getComparableString(lead.source)
      [] OTHER -> getTime(lead.created_at)

PositionOf(list, id) == CHOOSE p \in DOMAIN list : list[p].id = id

CallsAreOf(calls, leadId) == \A i \in DOMAIN calls : calls[i].lead_id = leadId

C13_MarkReadAfterPostSucceeds ==
    [][/\ lastOp' = "markNotificationRead" => store' = store
       /\ lastOp' = "markNotificationReadResolve"
            => (pendingRead[lastArg'] > 0
                /\ store' = markAsRead(store, lastArg'))
       /\ (\E i \in DOMAIN store.items :
              /\ i \in DOMAIN store'.items
              /\ store'.items[i].id = store.items[i].id
              /\ ~store.items[i].is_read
              /\ store'.items[i].is_read)
            => lastOp' \in {"markNotificationReadResolve", "fetchNotifications"}
      ]_vars

\* the POST for an entry was answered with success and the entry is read
C13_Witness ==
    /\ lastOp = "markNotificationReadResolve"
    /\ HasId(store.items, lastArg)
    /\ ~UnreadId(store.items, lastArg)
    /\ store.unreadCount = 0

C16_ReadNeverReverts ==
    [][\A i \in DOMAIN store.items : \A j \in DOMAIN store'.items :
          (store.items[i].is_read /\ store'.items[j].id = store.items[i].id)
             => store'.items[j].is_read]_vars

\* C20: an entry leaves items only by deleteNotification of its id, whatever
\* the interleaving of push frames and fetchList responses.
C20_RemovedOnlyByDelete ==
    [][\A i \in DOMAIN store.items :
          ~HasId(store'.items, store.items[i].id)
             => (lastOp' = "deleteNotification"
                 /\ lastArg' = store.items[i].id)]_vars

\* C21: every close event and every disconnect() clears the handle, and a
\* connect() with a token present that follows opens a new connection and
\* holds its handle.
C21_CloseClearsThenConnectOpens ==
    [][/\ lastOp' \in {"onclose", "disconnect"} => ws' = 0
       /\ (lastOp \in {"onclose", "disconnect"}
             /\ lastOp' = "connect" /\ lastArg')
            => (/\ ws = 0
                /\ ws' # 0
                /\ sock[ws'] = "none"
                /\ sock'[ws'] = "live")]_vars

\* connect() right after a disconnect() whose close event is still pending
C21_Witness ==
    /\ lastOp = "connect"
    /\ lastArg
    /\ ws # 0
    /\ sock[ws] = "live"
    /\ \E s \in SocketIds : sock[s] = "closing"

\* C22: with no token in the auth store and none in localStorage, connect()
\* creates no socket and leaves the handle and every connection as they are.
C22_NoTokenNoConnect ==
    [][(lastOp' = "connect" /\ ~token /\ ~lsToken)
          => (ws' = ws /\ sock' = sock)]_vars

\* connect() was called without a token while a connection was held
C22_Witness ==
    /\ lastOp = "connect"
    /\ ~lastArg
    /\ ws # 0
    /\ sock[ws] = "live"

\* C23: when the Layout effect is due to run again while it is already
\* connected for the same user (setUser with the user held), it opens no
\* connection and sends no further GET /notifications or GET unread count.
C23_SameUserShortCircuits ==
    [][(lastOp' = "setUser" /\ mounted /\ effectOn /\ user # 0 /\ user' = user)
          => (/\ ws' = ws
              /\ sock' = sock
              /\ pendingList' = pendingList
              /\ pendingCount' = pendingCount)]_vars

\* C24: with two GET /notifications in flight, the store after each answer
\* is exactly the list of that answer with unreadCount recomputed from it,
\* whatever the earlier answer left; so after both the store is the list of
\* the answer that arrived last.
C24_LastResponseWins ==
    [][(lastOp' = "fetchNotifications"
          /\ (pendingList >= 2 \/ lastOp = "fetchNotifications"))
          => (/\ store'.items = lastArg'
              /\ store'.unreadCount = CountUnread(lastArg'))]_vars

\* an answer has filled the store while the other request is still in flight
C24_Witness ==
    /\ lastOp = "fetchNotifications"
    /\ pendingList > 0
    /\ store.items = lastArg
    /\ store.items # <<>>
    /\ store.unreadCount = CountUnread(lastArg)

C26_MarkAsReadKeepsOrder ==
    [][lastOp' = "markAsRead"
          => (/\ Len(store'.items) = Len(store.items)
              /\ \A i \in DOMAIN store.items :
                    /\ store'.items[i].id = store.items[i].id
                    /\ store.items[i].id # lastArg'
                          => store'.items[i] = store.items[i]
                    /\ store.items[i].id = lastArg'
                          => store'.items[i] = [store.items[i] EXCEPT !.is_read = TRUE])]_vars

\* markAsRead has marked an entry that is not at the front of a list of at
\* least three entries, with an unread entry of another id in front of it
C26_Witness ==
    /\ lastOp = "markAsRead"
    /\ Len(store.items) >= 3
    /\ \E i, j \in DOMAIN store.items :
          /\ i < j
          /\ store.items[j].id = lastArg
          /\ store.items[j].is_read
          /\ store.items[i].id # lastArg
          /\ ~store.items[i].is_read

\* C27: the close event of a replaced or disconnected socket never clears
\* the handle of a newer connection: every socket that is live is the one
\* the module handle ws refers to.
C27_HandleRefersToLiveSocket == \A s \in Live : ws = s

\* C28: with every id sent at most once on the push channel, under any
\* interleaving of GET /notifications answers and push frames the list never
\* holds two entries of the same id.
C28_NoDuplicateIds == DistinctIds(store.items)

\* C29: after any sequence of authService.login, setToken, store logout,
\* authService.logout and 401 answers, the auth store's token is non-null
\* exactly when localStorage holds a 'token' entry.
C29_TokenCopiesAgree == token = lsToken

\* C30: after any sequence of row toggles, select-all toggles, fetchLeads
\* (fulfilled or failed) and bulk assignments, selectedLeadIds holds only
\* ids of leads that are in the current leads list and have no agent.
C30_SelectionWithinSelectable ==
    \A i \in DOMAIN selectedLeadIds :
        includes(selectableIds(leads), selectedLeadIds[i])

====
